---------------------------- MODULE Spec2Model ----------------------------
(***************************************************************************)
(* Classifier Word Metrics (streamlit_app.py): the upload / read_csv /     *)
(* process / summary / export run, with the statement-level loop, the      *)
(* ID-level aggregation, the found-terms normalisation and the Tactic      *)
(* Impact Summary translated from the source.                              *)
(*                                                                         *)
(* Representation.  A text is a sequence of one-character strings.  A cell *)
(* of the DataFrame is a tagged record: NaN (missing), Num(n) (a number)   *)
(* or Str(s) (a string); PyList(l) is a Python list.  A Python float is    *)
(* NaN or an exact rational Rat(n, d) in lowest terms: arithmetic on the   *)
(* values that occur (counts, quotients of counts) is modelled exactly.    *)
(* Text cells are strings or missing, ids are strings or missing, likes    *)
(* and comments are numbers or missing.  ast.literal_eval is modelled on   *)
(* texts of brackets, commas, quotes, blanks, digits and letters.          *)
(***************************************************************************)
EXTENDS Integers, Sequences, FiniteSets, TLC

\* ------------------------------------------------------------------ bounds

\* Most rows of an uploaded dataset.
MaxRows == 2

\* Longest raw string handed to the found-terms normaliser on its own.
MaxLen == 5

\* ------------------------------------------------------------------ values

NaN == [k |-> "nan"]

Absent == [k |-> "absent"]

RECURSIVE Gcd(_, _)
Gcd(a, b) == IF b = 0 THEN a ELSE Gcd(b, a % b)

\* A float holding the rational n / d (d > 0, n >= 0), in lowest terms.
Rat(n, d) ==
    LET g == Gcd(n, d)
    IN  [k |-> "num", n |-> n \div g, d |-> d \div g]

Num(n) == [k |-> "num", n |-> n, d |-> 1]

Str(s) == [k |-> "str", s |-> s]

PyList(l) == [k |-> "list", l |-> l]

PyTuple(l) == [k |-> "tuple", l |-> l]

\* len(x) of a list
PyLen(x) == Len(x.l)

\* Mutant of IsPositive: x >= 0.
IsNotNegative(x) == x.k = "num" /\ x.n >= 0

\* x > 0 on floats: a comparison with NaN is False.
IsPositive(x) == x.k = "num" /\ x.n > 0

\* ------------------------------------------------------------------ text

Whitespace == {" "}

Digits == <<"0", "1", "2", "3", "4", "5", "6", "7", "8", "9">>

\* str(x) of a text cell: a string is itself and a missing value is "nan".
PyStr(x) ==
    IF x.k = "str" THEN x.s ELSE <<"n", "a", "n">>

\* len(s.split()): the number of maximal runs of non-whitespace characters.
WordCount(s) ==
    Cardinality({i \in 1..Len(s) :
        /\ s[i] \notin Whitespace
        /\ (i = 1 \/ s[i - 1] \in Whitespace)})

\* s.removeprefix(p)
RemovePrefix(s, p) ==
    IF Len(s) >= Len(p) /\ SubSeq(s, 1, Len(p)) = p
    THEN SubSeq(s, Len(p) + 1, Len(s))
    ELSE s

DigitValue(c) == (CHOOSE i \in 1..10 : Digits[i] = c) - 1

IsDigit(c) == \E i \in 1..10 : Digits[i] = c

RECURSIVE DecimalValue(_)
DecimalValue(s) ==
    IF s = <<>> THEN 0
    ELSE 10 * DecimalValue(SubSeq(s, 1, Len(s) - 1)) + DigitValue(s[Len(s)])

Raise == [k |-> "raise"]

\* float(x): a number is itself, NaN stays NaN, a string of decimal digits is
\* its value and any other string raises ValueError.
PyFloat(x) ==
    IF x.k = "num" \/ x.k = "nan" THEN x
    ELSE IF x.k = "str" /\ x.s # <<>> /\ \A i \in 1..Len(x.s) : IsDigit(x.s[i])
    THEN Num(DecimalValue(x.s))
    ELSE Raise

\* ------------------------------------------------------ ast.literal_eval

Quotes == {"'", "\""}

\* The first position from i on that holds no blank (Len(s) + 1 at the end).
SkipBlanks(s, i) ==
    LET stops == {j \in i..Len(s) : s[j] \notin Whitespace}
    IN  IF stops = {} THEN Len(s) + 1
        ELSE CHOOSE j \in stops : \A m \in stops : j <= m

Fail == [ok |-> FALSE]

Parsed(v, next) == [ok |-> TRUE, v |-> v, next |-> next]

\* One string literal starting at the quote s[i]: three quotes in a row open a
\* triple-quoted literal, which runs to the next three; otherwise the literal
\* runs to the next quote of the same kind.
StringLiteral(s, i) ==
    LET q == s[i]
        n == Len(s)
    IN  IF i + 2 <= n /\ s[i + 1] = q /\ s[i + 2] = q
        THEN LET ends == {j \in (i + 3)..(n - 2) :
                             s[j] = q /\ s[j + 1] = q /\ s[j + 2] = q}
             IN  IF ends = {} THEN Fail
                 ELSE LET j == CHOOSE e \in ends : \A m \in ends : e <= m
                      IN  Parsed(SubSeq(s, i + 3, j - 1), j + 3)
        ELSE LET ends == {j \in (i + 1)..n : s[j] = q}
             IN  IF ends = {} THEN Fail
                 ELSE LET j == CHOOSE e \in ends : \A m \in ends : e <= m
                      IN  Parsed(SubSeq(s, i + 1, j - 1), j + 1)

\* Adjacent string literals are one string: acc is the text so far and i the
\* position after the last literal.
RECURSIVE MoreStrings(_, _, _)
MoreStrings(s, i, acc) ==
    LET j == SkipBlanks(s, i)
    IN  IF j <= Len(s) /\ s[j] \in Quotes
        THEN LET r == StringLiteral(s, j)
             IN  IF r.ok THEN MoreStrings(s, r.next, acc \o r.v) ELSE Fail
        ELSE Parsed(Str(acc), i)

\* An expression at s[i]: a list display, a string or a decimal integer; a
\* name, a stray comma or bracket, or the end of the text is an error.  Items(s, i, acc, close) reads
\* the elements of a display up to `close` ("]", or "" for the end of the text
\* in a top-level tuple).
RECURSIVE Expression(_, _), Items(_, _, _, _)

\* Whether the display that `close` ends, ends at s[i].
AtClose(s, i, close) ==
    IF close = "" THEN i > Len(s) ELSE i <= Len(s) /\ s[i] = close

\* After an element, at the next non-blank s[j]: the end of the display, or a
\* comma and the rest of the elements (none after a trailing comma).
Separator(s, j, acc, close) ==
    IF AtClose(s, j, close) THEN Parsed(acc, j + 1)
    ELSE IF j <= Len(s) /\ s[j] = ","
    THEN Items(s, SkipBlanks(s, j + 1), acc, close)
    ELSE Fail

\* The element parsed as r joins acc.
AfterItem(s, r, acc, close) ==
    IF r.ok THEN Separator(s, SkipBlanks(s, r.next), Append(acc, r.v), close)
    ELSE Fail

Items(s, i, acc, close) ==
    IF AtClose(s, i, close) THEN Parsed(acc, i + 1)
    ELSE AfterItem(s, Expression(s, i), acc, close)

ListDisplay(r) == IF r.ok THEN Parsed(PyList(r.v), r.next) ELSE Fail

\* A decimal integer starting at the digit s[i]: the run of digits, which may
\* start with 0 only when it is all zeros.
IntegerLiteral(s, i) ==
    LET after == {j \in (i + 1)..(Len(s) + 1) : j > Len(s) \/ ~IsDigit(s[j])}
        next == CHOOSE j \in after : \A m \in after : j <= m
        run == SubSeq(s, i, next - 1)
    IN  IF s[i] = "0" /\ \E j \in 1..Len(run) : run[j] # "0" THEN Fail
        ELSE Parsed(Num(DecimalValue(run)), next)

Expression(s, i) ==
    IF i > Len(s) THEN Fail
    ELSE IF s[i] = "[" THEN ListDisplay(Items(s, SkipBlanks(s, i + 1), <<>>, "]"))
    ELSE IF s[i] \in Quotes THEN
        LET r == StringLiteral(s, i)
        IN  IF r.ok THEN MoreStrings(s, r.next, r.v) ELSE Fail
    ELSE IF IsDigit(s[i]) THEN IntegerLiteral(s, i)
    ELSE Fail

TupleDisplay(t) == IF t.ok THEN PyTuple(t.v) ELSE Raise

\* The whole text s after its first expression, parsed as r: nothing but
\* blanks, or a comma and the rest of a tuple.
TopLevel(s, r) ==
    IF ~r.ok THEN Raise
    ELSE LET j == SkipBlanks(s, r.next)
         IN  IF j > Len(s) THEN r.v
             ELSE IF s[j] = ","
             THEN TupleDisplay(Items(s, SkipBlanks(s, j + 1), <<r.v>>, ""))
             ELSE Raise

\* text.lstrip(" \t")
LStrip(text) == SubSeq(text, SkipBlanks(text, 1), Len(text))

\* The parse of a text without leading blanks.
EvalStripped(s) == TopLevel(s, Expression(s, 1))

\* ast.literal_eval(text): leading blanks are stripped, then the whole text
\* must be one expression, or expressions separated by commas (a tuple).
\* Raise stands for SyntaxError / ValueError.
LiteralEval(text) == EvalStripped(LStrip(text))

\* ------------------------------------------------- found-terms normaliser

FoundPrefix == <<"f", "o", "u", "n", "d", "_">>

TermsSuffix == <<"_", "t", "e", "r", "m", "s">>

HasPrefix == <<"h", "a", "s", "_">>

NumberLikes == <<"n", "u", "m", "b", "e", "r", "_", "l", "i", "k", "e", "s">>

NumberComments ==
    <<"n", "u", "m", "b", "e", "r", "_", "c", "o", "m", "m", "e", "n", "t", "s">>

\* Mutant of FoundTermsCol: the classifier's name is used as it is.
FoundTermsColVerbatim(col) == FoundPrefix \o col \o TermsSuffix

\* base_col = col.removeprefix("has_"); found_terms_col = f"found_{base_col}_terms"
FoundTermsCol(col) == FoundPrefix \o RemovePrefix(col, HasPrefix) \o TermsSuffix

\* parsed if isinstance(parsed, list) else [], and [] when the parse raised.
ListOrEmpty(parsed) == IF parsed.k = "list" THEN parsed ELSE PyList(<<>>)

\* Mutant of StatementTerms: a value that is neither a string nor a list is kept.
StatementTermsKeepsOther(found_terms) ==
    IF found_terms.k = "str" THEN ListOrEmpty(LiteralEval(found_terms.s))
    ELSE found_terms

\* The statement-level normalisation of a found-terms value: a string is
\* parsed, and counts only when it parses to a list; a list is kept; anything
\* else is the empty list.
StatementTerms(found_terms) ==
    IF found_terms.k = "str" THEN ListOrEmpty(LiteralEval(found_terms.s))
    ELSE IF found_terms.k # "list" THEN PyList(<<>>)
    ELSE found_terms

\* The ID-level normalisation of one item of the found-terms column.
GroupTerms(item) ==
    IF item.k = "str" THEN ListOrEmpty(LiteralEval(item.s))
    ELSE IF item.k = "list" THEN item
    ELSE PyList(<<>>)

\* repr(s) of a string without backslashes that does not hold both kinds of
\* quote: double quotes when it holds a single quote, single quotes otherwise.
ReprStr(s) ==
    LET q == IF \E i \in 1..Len(s) : s[i] = "'" THEN "\"" ELSE "'"
    IN  <<q>> \o s \o <<q>>

\* repr(l) of a list of such strings and lists: the items' repr joined by ", ".
RECURSIVE ReprList(_), ReprItems(_)
ReprList(l) == <<"[">> \o ReprItems(l) \o <<"]">>

ReprItems(l) ==
    IF Len(l) = 0 THEN <<>>
    ELSE LET h == IF l[1].k = "list" THEN ReprList(l[1].l) ELSE ReprStr(l[1].s)
         IN  IF Len(l) = 1 THEN h
             ELSE h \o <<",", " ">> \o ReprItems(Tail(l))

\* ------------------------------------------------------------ arithmetic

\* round(p / n, digits) for scale = 10^digits, as a float: to the nearest
\* multiple of 1 / scale, an exact tie going to the even one.
RoundRatio(p, n, scale) ==
    LET q == (scale * p) \div n
        r == (scale * p) % n
        m == IF 2 * r < n THEN q
             ELSE IF 2 * r > n THEN q + 1
             ELSE IF q % 2 = 0 THEN q ELSE q + 1
    IN  Rat(m, scale)

\* Series.sum() of a sequence of cells: missing values are skipped.
RECURSIVE SumSkipNa(_)
SumSkipNa(cells) ==
    IF Len(cells) = 0 THEN 0
    ELSE (IF cells[1].k = "num" THEN cells[1].n ELSE 0) + SumSkipNa(Tail(cells))

\* The subsequence of seq at the increasing positions idx.
RECURSIVE Pick(_, _)
Pick(seq, idx) ==
    IF Len(idx) = 0 THEN <<>> ELSE <<seq[idx[1]]>> \o Pick(seq, Tail(idx))

\* The numbers of the set S in increasing order.
RECURSIVE Ascending(_)
Ascending(S) ==
    IF S = {} THEN <<>>
    ELSE LET m == CHOOSE x \in S : \A y \in S : x <= y
         IN  <<m>> \o Ascending(S \ {m})

RECURSIVE SumSeq(_)
SumSeq(ns) == IF Len(ns) = 0 THEN 0 ELSE ns[1] + SumSeq(Tail(ns))

\* ------------------------------------------------------------ DataFrame

\* pd.DataFrame(results): the table of a list of dicts.
DataFrame(rows) == [k |-> "table", rows |-> rows]

\* The results of a loop that ran to its end, or Raise when an iteration raised.
ResultTable(results) ==
    IF \E i \in 1..Len(results) : results[i].k = "raise" THEN Raise
    ELSE DataFrame(results)

\* No DataFrame: nothing has been read.
NoDf == [columns |-> <<>>, rows |-> <<>>, read |-> FALSE]

\* "name" in df.columns
HasColumn(df, name) == \E i \in 1..Len(df.columns) : df.columns[i] = name

\* row.get(key, default): the cell when the row has the key, missing or not.
RowGet(row, key, default) == IF key \in DOMAIN row THEN row[key] ELSE default

Range(seq) == {seq[i] : i \in 1..Len(seq)}

\* The order of the characters that occur in keys.
Collation == <<"A", "B", "C">>

CharRank(c) == CHOOSE i \in 1..Len(Collation) : Collation[i] = c

\* s < t on strings: the first difference decides, a proper prefix is less.
StrLess(s, t) ==
    \E i \in 1..Len(t) :
        /\ \A j \in 1..(i - 1) : j <= Len(s) /\ s[j] = t[j]
        /\ \/ i = Len(s) + 1
           \/ i <= Len(s) /\ CharRank(s[i]) < CharRank(t[i])

\* The keys of a set of string cells in ascending order.
RECURSIVE SortedKeys(_)
SortedKeys(K) ==
    IF K = {} THEN <<>>
    ELSE LET m == CHOOSE x \in K : \A y \in K \ {x} : StrLess(x.s, y.s)
         IN  <<m>> \o SortedKeys(K \ {m})

\* df.groupby(by): the keys in ascending order, each with the positions of its
\* rows in input order.  A row whose key is missing is in no group (dropna).
GroupBy(keys) ==
    LET K == {keys[i] : i \in 1..Len(keys)} \ {NaN}
        order == SortedKeys(K)
    IN  [g \in 1..Len(order) |->
            [key |-> order[g],
             rows |-> Ascending({i \in 1..Len(keys) : keys[i] = order[g]})]]

\* ------------------------------------------------- statement-level mode

\* Mutant of WordPercentage: the fraction is not scaled to a percentage.
WordPercentageUnscaled(found_word_count, total_word_count) ==
    IF total_word_count > 0
    THEN Rat(found_word_count, total_word_count)
    ELSE Num(0)

\* percentage = found / total if total > 0 else 0, then * 100
WordPercentage(found_word_count, total_word_count) ==
    IF total_word_count > 0
    THEN Rat(100 * found_word_count, total_word_count)
    ELSE Num(0)

\* The loop body for the row at position i (idx = i - 1): the result dict, or
\* Raise when float() of a classifier cell raises.
StatementResult(df, id_col, text_col, cols, i) ==
    LET row == df.rows[i]
        statement_text == PyStr(row[text_col])
        total_word_count == WordCount(statement_text)
        val == [c \in Range(cols) |-> PyFloat(RowGet(row, c, Num(0)))]
        pct == [c \in Range(cols) |->
                   LET found_terms ==
                           StatementTerms(
                               RowGet(row, FoundTermsCol(c), PyList(<<>>)))
                   IN  WordPercentage(PyLen(found_terms), total_word_count)]
    IN  IF \E c \in Range(cols) : val[c].k = "raise" THEN Raise
        ELSE [k |-> "result",
              row_id |-> (i - 1) + 1,
              id |-> row[id_col],
              statement |-> statement_text,
              word_count |-> total_word_count,
              number_likes |->
                  IF HasColumn(df, NumberLikes)
                  THEN RowGet(row, NumberLikes, Num(0)) ELSE Absent,
              number_comments |->
                  IF HasColumn(df, NumberComments)
                  THEN RowGet(row, NumberComments, Num(0)) ELSE Absent,
              value |-> val,
              percentage |-> pct]

\* Mutant of StatementLevel: the rows without a text are skipped.
StatementLevelSkipsMissing(df, id_col, text_col, cols) ==
    LET kept == Ascending({i \in 1..Len(df.rows) : df.rows[i][text_col] # NaN})
    IN  ResultTable([j \in 1..Len(kept) |->
                        StatementResult(df, id_col, text_col, cols, kept[j])])

\* for idx, row in df.iterrows(): ... results.append(result)
StatementLevel(df, id_col, text_col, cols) ==
    ResultTable([i \in 1..Len(df.rows) |->
                    StatementResult(df, id_col, text_col, cols, i)])

\* ------------------------------------------------- ID-level aggregation

\* Mutant of AsTypeStr: a missing text becomes the empty string.
AsTypeStrBlank(x) == IF x.k = "str" THEN x.s ELSE <<>>

\* Series.astype(str) of one text cell.
AsTypeStr(x) == IF x.k = "str" THEN x.s ELSE <<"n", "a", "n">>

\* The found-term count of one classifier over the rows `positive` of a group.
GroupWordCount(df, col, positive) ==
    IF HasColumn(df, FoundTermsCol(col))
    THEN SumSeq([j \in 1..Len(positive) |->
                    PyLen(GroupTerms(df.rows[positive[j]][FoundTermsCol(col)]))])
    ELSE 0

\* The loop body for one group: the agg_result dict, or Raise when
\* astype(float) of a classifier column of the group raises.
GroupResult(df, text_col, cols, group) ==
    LET n == Len(group.rows)
        statements == [j \in 1..n |-> AsTypeStr(df.rows[group.rows[j]][text_col])]
        total_words == SumSeq([j \in 1..n |-> WordCount(statements[j])])
        values == [c \in Range(cols) |->
                      [j \in 1..n |-> PyFloat(df.rows[group.rows[j]][c])]]
        positive == [c \in Range(cols) |->
                        Pick(group.rows,
                             Ascending({j \in 1..n : IsPositive(values[c][j])}))]
        likes(idx, name) ==
            IF HasColumn(df, name)
            THEN Num(SumSkipNa([j \in 1..Len(idx) |-> df.rows[idx[j]][name]]))
            ELSE Absent
    IN  IF \E c \in Range(cols) : \E j \in 1..n : values[c][j].k = "raise"
        THEN Raise
        ELSE [k |-> "result",
              id |-> group.key,
              total_word_count |-> total_words,
              total_likes |-> likes(group.rows, NumberLikes),
              total_comments |-> likes(group.rows, NumberComments),
              word_count |->
                  [c \in Range(cols) |-> GroupWordCount(df, c, positive[c])],
              percentage |->
                  [c \in Range(cols) |-> Rat(100 * Len(positive[c]), n)],
              continuous_score |->
                  [c \in Range(cols) |-> RoundRatio(Len(positive[c]), n, 1000)],
              likes |->
                  [c \in Range(cols) |-> likes(positive[c], NumberLikes)],
              comments |->
                  [c \in Range(cols) |-> likes(positive[c], NumberComments)]]

\* grouped = df.groupby(id_column); for uid, group in grouped: ...
IdLevel(df, id_col, text_col, cols) ==
    LET grouped == GroupBy([i \in 1..Len(df.rows) |-> df.rows[i][id_col]])
    IN  ResultTable([g \in 1..Len(grouped) |->
                        GroupResult(df, text_col, cols, grouped[g])])

\* ------------------------------------------------ Tactic Impact Summary

\* Mutant of First: the value of the first row, missing or not.
FirstRow(cells) == cells[1]

\* GroupBy.first() of a column over the rows idx: the first value that is not
\* missing, and missing when there is none.
First(cells) ==
    LET there == {j \in 1..Len(cells) : cells[j] # NaN}
    IN  IF there = {} THEN NaN
        ELSE cells[CHOOSE j \in there : \A m \in there : j <= m]

\* Series.mean() rounded to 2 places, 0 when the mean is NaN (nothing to average).
MeanOrZero(cells) ==
    LET m == Cardinality({j \in 1..Len(cells) : cells[j] # NaN})
    IN  IF m = 0 THEN Num(0) ELSE RoundRatio(SumSkipNa(cells), m, 100)

\* The summary row of one classifier column over the result table.
TacticRow(results, col) ==
    LET pos_rows == Ascending({i \in 1..Len(results) :
                                  IsPositive(results[i].value[col])})
        grouped == GroupBy([j \in 1..Len(pos_rows) |-> results[pos_rows[j]].id])
        likes_per_post ==
            [g \in 1..Len(grouped) |->
                First([j \in 1..Len(grouped[g].rows) |->
                    results[pos_rows[grouped[g].rows[j]]].number_likes])]
        comments_per_post ==
            [g \in 1..Len(grouped) |->
                First([j \in 1..Len(grouped[g].rows) |->
                    results[pos_rows[grouped[g].rows[j]]].number_comments])]
    IN  [tactic |-> col,
         positive_statements |-> Len(pos_rows),
         unique_posts |-> Len(grouped),
         total_likes |-> SumSkipNa(likes_per_post),
         avg_likes |-> MeanOrZero(likes_per_post),
         total_comments |-> SumSkipNa(comments_per_post),
         avg_comments |-> MeanOrZero(comments_per_post)]

\* for col in classifier_columns: ... tactic_stats.append(...).  result_df has
\* no columns when there are no results, and result_df[col] then raises KeyError.
TacticStats(results, cols) ==
    IF Len(cols) > 0 /\ Len(results) = 0 THEN Raise
    ELSE DataFrame([c \in 1..Len(cols) |-> TacticRow(results, cols[c])])

\* ------------------------------------------------------------ inputs

PostId == <<"p", "o", "s", "t", "_", "i", "d">>

TextCol == <<"t", "e", "x", "t">>

HasX == <<"h", "a", "s", "_", "x">>

TacticY == <<"y">>

FoundXTerms == <<"f", "o", "u", "n", "d", "_", "x", "_", "t", "e", "r", "m",
    "s">>

FoundHasXTerms == <<"f", "o", "u", "n", "d", "_", "h", "a", "s", "_", "x",
    "_", "t", "e", "r", "m", "s">>

FoundYTerms == <<"f", "o", "u", "n", "d", "_", "y", "_", "t", "e", "r", "m",
    "s">>

\* The columns a user selects as classifier columns.
ClassifierNames == {HasX, TacticY}

IdA == Str(<<"A">>)

IdB == Str(<<"B">>)

NoWords == Str(<<" ">>)

OneWord == Str(<<"a">>)

TwoWords == Str(<<"a", " ", "a">>)

OneTerm == Str(<<"[", "'", "a", "'", "]">>)

TwoTerms == Str(<<"[", "'", "a", "'", ",", " ", "'", "a", "'", "]">>)

NotAList == Str(<<"a">>)

Table(columns, rowset) ==
    {[columns |-> columns, rows |-> rs, read |-> TRUE] :
        rs \in UNION {[1..n -> rowset] : n \in 0..MaxRows}}

\* Texts of no, one and two words against found-terms cells that are missing,
\* a number, lists of one and two terms, and no list.
WordTables ==
    Table(<<PostId, TextCol, HasX, FoundXTerms>>,
          {PostId :> IdA @@ TextCol :> t @@ HasX :> Num(1) @@ FoundXTerms :> f :
              t \in {NoWords, OneWord, TwoWords},
              f \in {NaN, Num(7), OneTerm, TwoTerms, NotAList}})

\* Identities, one of them missing, against texts, one of them missing; no
\* companion column.
IdentityTables ==
    Table(<<PostId, TextCol, HasX>>,
          {PostId :> i @@ TextCol :> t @@ HasX :> Num(1) :
              i \in {IdA, IdB, NaN}, t \in {NoWords, TwoWords, NaN}})

\* Classifier values that are zero, positive and missing, against found-terms
\* lists, over two identities.
ClassifierTables ==
    Table(<<PostId, TextCol, HasX, FoundXTerms>>,
          {PostId :> i @@ TextCol :> OneWord @@ HasX :> v @@ FoundXTerms :> f :
              i \in {IdA, IdB}, v \in {Num(0), Num(1), NaN},
              f \in {OneTerm, TwoTerms}})

\* Likes and comments, one of them missing, over identities, one of them missing.
EngagementTables ==
    Table(<<PostId, TextCol, HasX, NumberLikes, NumberComments>>,
          {PostId :> i @@ TextCol :> OneWord @@ HasX :> v
               @@ NumberLikes :> e[1] @@ NumberComments :> e[2] :
              i \in {IdA, IdB, NaN}, v \in {Num(0), Num(1)},
              e \in {<<Num(1), Num(2)>>, <<Num(2), Num(1)>>, <<NaN,
                  Num(4)>>}})

\* A classifier column read as strings, because one of its cells is no number.
StringTables ==
    Table(<<PostId, TextCol, HasX>>,
          {PostId :> i @@ TextCol :> OneWord @@ HasX :> v :
              i \in {IdA, IdB},
              v \in {Str(<<"0">>), Str(<<"1">>), Str(<<"x">>)}})

\* Two classifier columns, one named without the has_ prefix.
TwoTacticTables ==
    Table(<<PostId, TextCol, HasX, TacticY, FoundXTerms, FoundYTerms>>,
          {PostId :> IdA @@ TextCol :> TwoWords @@ HasX :> v @@ TacticY :> w
               @@ FoundXTerms :> OneTerm @@ FoundYTerms :> f :
              v \in {Num(0), Num(1)}, w \in {Num(0), Num(1)},
              f \in {TwoTerms, NotAList}})

\* Likes without comments.
LikesOnlyTables ==
    Table(<<PostId, TextCol, HasX, NumberLikes>>,
          {PostId :> i @@ TextCol :> OneWord @@ HasX :> v @@ NumberLikes :> e :
              i \in {IdA, IdB}, v \in {Num(0), Num(1)}, e \in {Num(1), NaN}})

\* The scenario's three rows, with the companion column under `found`.
ScenarioTable(found) ==
    [columns |-> <<PostId, TextCol, HasX, found>>,
     read |-> TRUE,
     rows |-> <<
        PostId :> IdA @@ HasX :> Num(1)
            @@ TextCol :> Str(<<"g", "r", "e", "a", "t", " ", "p", "r", "o",
                "d", "u", "c", "t">>)
            @@ found :> Str(<<"[", "\"", "g", "r", "e", "a", "t", "\"",
                "]">>),
        PostId :> IdA @@ HasX :> Num(0)
            @@ TextCol :> Str(<<"i", " ", "l", "o", "v", "e", " ", "i", "t">>)
            @@ found :> Str(<<"[", "]">>),
        PostId :> IdB @@ HasX :> Num(1)
            @@ TextCol :> Str(<<"m", "e", "h">>)
            @@ found :> Str(<<"[", "\"", "m", "e", "h", "\"", "]">>) >>]

\* What is uploaded: a dataset read_csv parses, or a file it cannot parse.
Uploads ==
    {[ok |-> FALSE, df |-> NoDf]} \cup
    {[ok |-> TRUE, df |-> d] :
        d \in WordTables \cup IdentityTables \cup ClassifierTables
              \cup EngagementTables \cup StringTables \cup TwoTacticTables
              \cup LikesOnlyTables
              \cup {ScenarioTable(FoundHasXTerms), ScenarioTable(FoundXTerms)}}

\* The selections of the classifier multiselect: the classifier columns of the
\* dataset, or any part of them, in the order of the columns.
RECURSIVE Selections(_)
Selections(columns) ==
    IF columns = <<>> THEN {<<>>}
    ELSE LET rest == Selections(Tail(columns))
         IN  IF columns[1] \in ClassifierNames
             THEN rest \cup {<<columns[1]>> \o r : r \in rest}
             ELSE rest

\* ------------------------------------------------------------ the run

VARIABLES
    pc,                 \* where the script is
    uploaded_file,      \* the uploaded file
    df,                 \* the DataFrame read from it
    id_column,
    text_column,
    classifier_columns,
    process_mode,
    result_df,          \* the result table
    tactic_stats,       \* the rows of the Tactic Impact Summary
    messages,           \* st.success / st.error, in order
    item,               \* a found-terms value under normalisation
    terms,              \* its normalisation
    previous,           \* the normalisation that `item` was made from
    norm_pc             \* where the normalisation is

runVars == <<pc, uploaded_file, df, id_column, text_column, classifier_columns,
             process_mode, result_df, tactic_stats, messages>>

normVars == <<item, terms, previous, norm_pc>>

vars == <<runVars, normVars>>

Init ==
    /\ pc = "uploaded"
    /\ uploaded_file \in Uploads
    /\ df = NoDf
    /\ id_column = <<>>
    /\ text_column = <<>>
    /\ classifier_columns = <<>>
    /\ process_mode = "none"
    /\ result_df = <<>>
    /\ tactic_stats = <<>>
    /\ messages = <<>>
    /\ item = NaN
    /\ terms = NaN
    /\ previous = NaN
    /\ norm_pc = "off"

\* except Exception as e: st.error(f"Failed to read file: {e}")
Failed ==
    /\ pc' = "failed"
    /\ messages' = Append(messages, "error")

\* result_df = pd.DataFrame(results); st.success(f"Processed ... rows."), or
\* the handler when the loop raised.
Processed(results, next) ==
    IF results.k = "raise"
    THEN Failed /\ UNCHANGED result_df
    ELSE /\ result_df' = results.rows
         /\ messages' = Append(messages, "processed")
         /\ pc' = next

\* summary_df = pd.DataFrame(tactic_stats), or the handler when a row raised.
Summarised(stats) ==
    IF stats.k = "raise"
    THEN Failed /\ UNCHANGED tactic_stats
    ELSE /\ tactic_stats' = stats.rows
         /\ pc' = "export"
         /\ UNCHANGED messages

\* df = pd.read_csv(uploaded_file), then the column selections: the first and
\* the second column by default, and the user's choice of classifier columns.
ReadCsv ==
    /\ pc = "uploaded"
    /\ IF uploaded_file.ok
       THEN /\ df' = uploaded_file.df
            /\ messages' = Append(messages, "uploaded")
            /\ id_column' = uploaded_file.df.columns[1]
            /\ text_column' = uploaded_file.df.columns[2]
            /\ classifier_columns' \in Selections(uploaded_file.df.columns)
            /\ pc' = "selected"
       ELSE /\ Failed
            /\ UNCHANGED <<df, id_column, text_column, classifier_columns>>
    /\ UNCHANGED <<uploaded_file, process_mode, result_df, tactic_stats>>
    /\ UNCHANGED normVars

\* Process Data in mode "Statement-level".
ProcessStatementLevel ==
    /\ pc = "selected"
    /\ process_mode' = "Statement-level"
    /\ Processed(StatementLevel(df, id_column, text_column, classifier_columns),
                 IF HasColumn(df, NumberLikes) /\ HasColumn(df, NumberComments)
                 THEN "summary" ELSE "export")
    /\ UNCHANGED <<uploaded_file, df, id_column, text_column,
                   classifier_columns, tactic_stats>>
    /\ UNCHANGED normVars

\* Process Data in mode "Aggregate to ID-level".
ProcessIdLevel ==
    /\ pc = "selected"
    /\ process_mode' = "Aggregate to ID-level"
    /\ Processed(IdLevel(df, id_column, text_column, classifier_columns),
                 "export")
    /\ UNCHANGED <<uploaded_file, df, id_column, text_column,
                   classifier_columns, tactic_stats>>
    /\ UNCHANGED normVars

\* The Tactic Impact Summary of a statement-level run with likes and comments.
TacticImpactSummary ==
    /\ pc = "summary"
    /\ Summarised(TacticStats(result_df, classifier_columns))
    /\ UNCHANGED <<uploaded_file, df, id_column, text_column,
                   classifier_columns, process_mode, result_df>>
    /\ UNCHANGED normVars

\* The preview and the download link: the run ends.
ExportResults ==
    /\ pc = "export"
    /\ pc' = "done"
    /\ UNCHANGED <<uploaded_file, df, id_column, text_column,
                   classifier_columns, process_mode, result_df, tactic_stats,
                   messages>>
    /\ UNCHANGED normVars

Next ==
    \/ ReadCsv
    \/ ProcessStatementLevel
    \/ ProcessIdLevel
    \/ TacticImpactSummary
    \/ ExportResults

Spec == Init /\ [][Next]_vars

\* ------------------------------------- the normaliser on its own

\* The characters of the raw strings.
NormChars == {"[", "]", ",", "'", "a", " "}

\* The items of the raw lists.
NormItems == {Str(<<>>), Str(<<"a">>), Str(<<"'">>)}

\* The raw cell values: missing, a number, a string, a list.
RawCells ==
    {NaN, Num(7)}
    \cup {Str(s) : s \in UNION {[1..n -> NormChars] : n \in 0..MaxLen}}
    \cup {PyList(l) : l \in UNION {[1..n -> NormItems] : n \in 0..2}}

\* Whether ReprList covers the list: strings that do not hold both kinds of quote.
Reprable(l) ==
    \A i \in 1..Len(l) :
        /\ l[i].k = "str"
        /\ ~(\E a \in 1..Len(l[i].s) : \E b \in 1..Len(l[i].s) :
               l[i].s[a] = "'" /\ l[i].s[b] = "\"")

InitNorm ==
    /\ pc = "idle"
    /\ uploaded_file = [ok |-> FALSE, df |-> NoDf]
    /\ df = NoDf
    /\ id_column = <<>>
    /\ text_column = <<>>
    /\ classifier_columns = <<>>
    /\ process_mode = "none"
    /\ result_df = <<>>
    /\ tactic_stats = <<>>
    /\ messages = <<>>
    /\ item \in RawCells
    /\ terms = NaN
    /\ previous = NaN
    /\ norm_pc = "raw"

\* Where the normalisation is after normalising at `at`.
AfterNormalise(at) ==
    IF at = "raw" THEN "normalised"
    ELSE IF at = "list again" THEN "list done"
    ELSE "repr done"

\* The statement-level loop normalises the value.
NormaliseStatement ==
    /\ norm_pc \in {"raw", "list again", "repr again"}
    /\ terms' = StatementTerms(item)
    /\ norm_pc' = AfterNormalise(norm_pc)
    /\ UNCHANGED <<item, previous, runVars>>

\* The ID-level loop normalises the value.
NormaliseGroup ==
    /\ norm_pc \in {"raw", "list again", "repr again"}
    /\ terms' = GroupTerms(item)
    /\ norm_pc' = AfterNormalise(norm_pc)
    /\ UNCHANGED <<item, previous, runVars>>

\* The normalised list is the next value to normalise.
ListAgain ==
    /\ norm_pc = "normalised"
    /\ item' = terms
    /\ previous' = terms
    /\ norm_pc' = "list again"
    /\ UNCHANGED <<terms, runVars>>

\* The literal-list string form of the normalised list is the next value.
ReprAgain ==
    /\ norm_pc = "normalised"
    /\ terms.k = "list"
    /\ Reprable(terms.l)
    /\ item' = Str(ReprList(terms.l))
    /\ previous' = terms
    /\ norm_pc' = "repr again"
    /\ UNCHANGED <<terms, runVars>>

NextNorm ==
    \/ NormaliseStatement
    \/ NormaliseGroup
    \/ ListAgain
    \/ ReprAgain

SpecNorm == InitNorm /\ [][NextNorm]_vars

\* ------------------------------------------------------------ claims

\* The result table of a run in `mode` is there.
Emitted(mode) ==
    process_mode = mode /\ pc \in {"summary", "export", "done"}

StatementMode == "Statement-level"

IdMode == "Aggregate to ID-level"

\* The length of the normalised found-terms list of a row for a classifier.
FoundCount(row, col) ==
    PyLen(StatementTerms(RowGet(row, FoundTermsCol(col), PyList(<<>>))))

\* C1, as stated: in statement-level mode every emitted {col}_percentage lies
\* in [0, 100], is 0 exactly when the row's word_count is 0, and is otherwise
\* 100 * (length of the normalised found-terms list) / word_count.
C1_PercentageWithinHundred ==
    Emitted(StatementMode) =>
        \A i \in 1..Len(result_df) : \A c \in Range(classifier_columns) :
            LET p == result_df[i].percentage[c]
                wc == result_df[i].word_count
            IN  /\ p.k = "num" /\ 0 <= p.n /\ p.n <= 100 * p.d
                /\ (p.n = 0) <=> (wc = 0)
                /\ wc # 0 => p.n * wc = 100 * FoundCount(df.rows[i], c) * p.d

\* C1, amended: every emitted {col}_percentage is a number >= 0, is 0 when the
\* row's word_count is 0, and is otherwise 100 * (length of the normalised
\* found-terms list) / word_count: 0 as well when that list is empty, and more
\* than 100 when the list is longer than the text has words.
C1_PercentageIsRatio ==
    Emitted(StatementMode) =>
        \A i \in 1..Len(result_df) : \A c \in Range(classifier_columns) :
            LET p == result_df[i].percentage[c]
                wc == result_df[i].word_count
            IN  /\ p.k = "num" /\ 0 <= p.n /\ p.d > 0
                /\ wc = 0 => p.n = 0
                /\ wc # 0 => p.n * wc = 100 * FoundCount(df.rows[i], c) * p.d

\* A statement-level row of one word with two found terms: 200 per cent.
C1_Witness ==
    /\ Emitted(StatementMode)
    /\ \E i \in 1..Len(result_df) : \E c \in Range(classifier_columns) :
        /\ result_df[i].word_count = 1
        /\ FoundCount(df.rows[i], c) = 2
        /\ result_df[i].percentage[c] = Num(200)

\* The scenario's outputs, given the total_word_count of identity A.
ScenarioOutputs(words_of_a) ==
    /\ Emitted(StatementMode) =>
        /\ Len(result_df) = 3
        /\ result_df[1].word_count = 2
        /\ result_df[1].value[HasX] = Num(1)
        /\ result_df[1].percentage[HasX] = Num(50)
        /\ result_df[3].word_count = 1
        /\ result_df[3].value[HasX] = Num(1)
        /\ result_df[3].percentage[HasX] = Num(100)
    /\ Emitted(IdMode) =>
        /\ Len(result_df) = 2
        /\ result_df[1].id = IdA
        /\ result_df[1].total_word_count = words_of_a
        /\ result_df[1].word_count[HasX] = 1
        /\ result_df[1].percentage[HasX] = Num(50)
        /\ result_df[1].continuous_score[HasX] = Rat(5, 10)
        /\ result_df[2].id = IdB
        /\ result_df[2].total_word_count = 1
        /\ result_df[2].word_count[HasX] = 1
        /\ result_df[2].percentage[HasX] = Num(100)
        /\ result_df[2].continuous_score[HasX] = Num(1)

\* C2, as stated: for the three rows A "great product", A "i love it", B "meh"
\* with has_x = 1, 0, 1 and the companion column named found_has_x_terms, the
\* statement-level rows 1 and 3 have word_count 2 and 1, has_x 1 and
\* percentages 50 and 100, and the ID-level records are A: total_word_count 4,
\* has_x_word_count 1, 50 per cent, score 0.5 and B: 1, 1, 100 per cent, 1.0.
C2_ScenarioAsStated ==
    (df = ScenarioTable(FoundHasXTerms) /\ classifier_columns = <<HasX>>)
        => ScenarioOutputs(4)

\* C2, amended: the same, with the companion column named found_x_terms (has_
\* is stripped from the classifier's name) and total_word_count 5 for A.
C2_ScenarioStripped ==
    (df = ScenarioTable(FoundXTerms) /\ classifier_columns = <<HasX>>)
        => ScenarioOutputs(5)

\* The ID-level run of the scenario with found_x_terms has ended.
C2_Witness ==
    /\ df = ScenarioTable(FoundXTerms)
    /\ classifier_columns = <<HasX>>
    /\ process_mode = IdMode
    /\ pc = "done"
    /\ Len(result_df) = 2

\* The rows of the dataset whose id is that of the g-th emitted record.
RowsOf(g) ==
    Ascending({i \in 1..Len(df.rows) : df.rows[i][id_column] = result_df[g].id})

\* C3: in ID-level aggregation the groups partition the input rows, missing
\* ids included: every row is in exactly one emitted group, and the sizes of
\* the groups add up to the number of rows.
C3_GroupsPartitionRows ==
    Emitted(IdMode) =>
        /\ \A i \in 1..Len(df.rows) :
            Cardinality({g \in 1..Len(result_df) :
                result_df[g].id = df.rows[i][id_column]}) = 1
        /\ SumSeq([g \in 1..Len(result_df) |-> Len(RowsOf(g))]) = Len(df.rows)

\* The summary of a statement-level run is there.
SummaryThere ==
    /\ process_mode = StatementMode
    /\ pc \in {"export", "done"}
    /\ HasColumn(df, NumberLikes) /\ HasColumn(df, NumberComments)

\* The positions of the Statement Records of identity v that are positive for
\* the classifier col, in input order.
PositiveOf(v, col) ==
    Ascending({i \in 1..Len(result_df) :
        /\ result_df[i].id = v
        /\ result_df[i].value[col].k = "num"
        /\ result_df[i].value[col].n > 0})

\* The identities of the Statement Records: the values of id that are not missing.
Identities ==
    {result_df[i].id : i \in 1..Len(result_df)} \ {NaN}

\* A likes or comments value as a number: a missing value adds nothing.
Amount(x) == IF x.k = "num" THEN x.n ELSE 0

\* The sum over the identities of V of what F gives for each.
RECURSIVE SumOver(_, _)
SumOver(V, F) ==
    IF V = {} THEN 0
    ELSE LET v == CHOOSE x \in V : TRUE
         IN  F[v] + SumOver(V \ {v}, F)

FirstPresent(idx, field) ==
    LET there == {j \in 1..Len(idx) : result_df[idx[j]][field] # NaN}
    IN  IF there = {} THEN 0
        ELSE result_df[idx[CHOOSE j \in there : \A m \in there : j <= m]][field].n

C5_OneRecordPerRow ==
    Emitted(StatementMode) =>
        /\ Len(result_df) = Len(df.rows)
        /\ \A k \in 1..Len(df.rows) :
            LET cell == df.rows[k][text_column]
            IN  /\ result_df[k].row_id = k
                /\ result_df[k].id = df.rows[k][id_column]
                /\ cell.k = "str" => result_df[k].statement = cell.s
                /\ cell.k = "nan" => result_df[k].statement = <<"n", "a", "n">>

\* Two rows of different ids and texts, one of them missing, emitted in order.
C5_Witness ==
    /\ Emitted(StatementMode)
    /\ Len(result_df) = 2
    /\ result_df[1].id = IdB /\ result_df[1].statement = <<"n", "a", "n">>
    /\ result_df[2].id = NaN /\ result_df[2].statement = <<"a", " ", "a">>

\* C6: once the dataset has been read, no anomaly of a row or a group aborts
\* the run: the failure outcome comes only from reading the dataset.
C6_OnlyReadFails ==
    pc = "failed" => ~df.read

\* C7: in statement-level mode every emitted classifier value is a float, and
\* 0.0 when the row's classifier cell is missing.
C7_MissingIsZero ==
    Emitted(StatementMode) =>
        \A i \in 1..Len(result_df) : \A c \in Range(classifier_columns) :
            /\ result_df[i].value[c].k \in {"num", "nan"}
            /\ df.rows[i][c] = NaN => result_df[i].value[c] = Num(0)

\* C8: the normalisation of a found-terms value, by either loop, is a list; it
\* is the value itself when that is a list, so normalising a normalised list
\* again changes nothing; the literal-list string form of a list normalises to
\* a list of equal content; a missing value, a number and a string that is no
\* literal list (none starts with "[" and ends with "]" apart from blanks, and
\* none parses to one) normalise to the empty list.
C8_Normalisation ==
    norm_pc \in {"normalised", "list done", "repr done"} =>
        /\ terms.k = "list"
        /\ item.k = "list" => terms = item
        /\ norm_pc \in {"list done", "repr done"} => terms = previous
        /\ item.k \in {"nan", "num"} => terms = PyList(<<>>)
        /\ item.k = "str" =>
            LET s == item.s
                inked == {i \in 1..Len(s) : s[i] # " "}
            IN  /\ (\/ inked = {}
                    \/ \E i \in inked :
                        /\ \A m \in inked : i <= m
                        /\ s[i] # "["
                    \/ \E i \in inked :
                        /\ \A m \in inked : m <= i
                        /\ s[i] # "]")
                        => terms = PyList(<<>>)
                /\ LiteralEval(s).k # "list" => terms = PyList(<<>>)

\* A list of two strings went through its literal-list string form and back.
C8_Witness ==
    /\ norm_pc = "repr done"
    /\ item.k = "str"
    /\ PyLen(terms) = 2
    /\ terms.l[1] = Str(<<"a">>)
    /\ terms.l[2] = Str(<<"'">>)

\* C9: in ID-level aggregation every {col}_word_count is the sum of the
\* lengths of the normalised found-terms lists over the rows of the group
\* whose classifier value is > 0, and 0 when the dataset has no companion
\* found-terms column.
C9_WordCountOverPositiveRows ==
    Emitted(IdMode) =>
        \A g \in 1..Len(result_df) : \A c \in Range(classifier_columns) :
            LET fired == Ascending({i \in 1..Len(df.rows) :
                            /\ df.rows[i][id_column] = result_df[g].id
                            /\ PyFloat(df.rows[i][c]).k = "num"
                            /\ PyFloat(df.rows[i][c]).n > 0})
            IN  result_df[g].word_count[c] =
                    IF HasColumn(df, FoundTermsCol(c))
                    THEN SumSeq([j \in 1..Len(fired) |->
                        PyLen(GroupTerms(df.rows[fired[j]][FoundTermsCol(c)]))])
                    ELSE 0

\* A group of a row that fired with one term and a row that did not with two.
C9_Witness ==
    /\ Emitted(IdMode)
    /\ classifier_columns = <<HasX>>
    /\ Len(df.rows) = 2
    /\ df.rows[1][PostId] = IdA /\ df.rows[2][PostId] = IdA
    /\ df.rows[1][HasX] = Num(1) /\ df.rows[2][HasX] = Num(0)
    /\ HasColumn(df, FoundXTerms)
    /\ df.rows[1][FoundXTerms] = OneTerm /\ df.rows[2][FoundXTerms] = TwoTerms
    /\ result_df[1].word_count[HasX] = 1

\* C10: the ID-level total_word_count of an emitted identity is the sum of the
\* statement-level word_count of the Statement Records of that identity.
C10_ModesAgreeOnWords ==
    Emitted(IdMode) =>
        LET statement == StatementLevel(df, id_column, text_column,
                                        classifier_columns)
        IN  statement.k = "table" =>
                \A g \in 1..Len(result_df) :
                    LET of == Ascending({k \in 1..Len(statement.rows) :
                                  statement.rows[k].id = result_df[g].id})
                    IN  result_df[g].total_word_count =
                            SumSeq([j \in 1..Len(of) |->
                                statement.rows[of[j]].word_count])

\* A group of a missing text and a text of two words: three words.
C10_Witness ==
    /\ Emitted(IdMode)
    /\ Len(df.rows) = 2
    /\ Len(result_df) = 1
    /\ df.rows[1][TextCol] = NaN /\ df.rows[2][TextCol] = TwoWords
    /\ result_df[1].total_word_count = 3

=============================================================================
